---- MODULE Spec2Model ----
(***************************************************************************)
(* Model of enerby-dev: the repository-metadata cache                      *)
(* (src/utils/github_cache.rs) with its persistence through serde_json and *)
(* its merge, the two GitHub URL parsers (src/utils/github_api.rs,         *)
(* src/utils/project_images.rs), the enrichment of the projects            *)
(* (src/components/projects.rs) and the read time of a Markdown post       *)
(* (src/utils/markdown_loader.rs).                                         *)
(*                                                                         *)
(* Strings that the code transforms (owner, repo, cache keys) are          *)
(* sequences of one-character strings; u64 values are naturals below       *)
(* U64Max + 1, a scaled-down 2^64.                                        *)
(***************************************************************************)
EXTENDS Integers, Sequences, FiniteSets, TLC

(***************************************************************************)
(* Bounds of the model.                                                    *)
(***************************************************************************)
\* Largest value of the scaled-down u64 (2^13 - 1 instead of 2^64 - 1).
U64Max == 8191

\* The clock is observed at 0..MaxTick and at DEFAULT_TTL_SECONDS + 1..MaxTick.
MaxTick == 1

\* Calls of enrich_project_with_github made in a row on one project.
MaxCalls == 2

\* Largest number of repetitions of a piece of text in a Markdown content.
MaxRepeat == 51201

\* Threads that call get_cached_repo and set_cached_repo.
MaxThreads == 2

\* Largest number of files embedded from content/blog.
MaxFiles == 2

(***************************************************************************)
(* Program constants.                                                      *)
(***************************************************************************)
DEFAULT_TTL_SECONDS == 3600

(***************************************************************************)
(* Option<T>.                                                              *)
(***************************************************************************)
None == [some |-> FALSE]

Some(x) == [some |-> TRUE, v |-> x]

(***************************************************************************)
(* GitHubRepoInfo values stored in the cache.                              *)
(***************************************************************************)
\* create_test_repo("test") of the cache's tests.
TestRepo ==
    [name |-> "test", full_name |-> "owner/test",
     description |-> Some("Test repo"),
     homepage |-> Some("https://example.com"), language |-> Some("Rust"),
     stargazers_count |-> 10, forks_count |-> 2, fork |-> FALSE,
     archived |-> FALSE, topics |-> <<"test">>,
     html_url |-> "https://github.com/owner/test"]

\* GitHubRepoInfo::minimal("owner", "min").
MinimalRepo ==
    [name |-> "min", full_name |-> "owner/min",
     description |-> None, homepage |-> None, language |-> None,
     stargazers_count |-> 0, forks_count |-> 0, fork |-> FALSE,
     archived |-> FALSE, topics |-> <<>>,
     html_url |-> "https://github.com/owner/min"]

RepoInfos == {TestRepo, MinimalRepo}

(***************************************************************************)
(* Inputs of the operations.                                               *)
(***************************************************************************)
\* (owner, repo) arguments: two spellings of one repository and another one.
Names == { << <<"o", "w">>, <<"r", "e">> >>,
           << <<"O", "w">>, <<"R", "E">> >>,
           << <<"o", "w">>, <<"l", "i", "b">> >> }

\* ttl_seconds arguments of with_ttl and set_with_ttl: the largest u64
\* ("never expires").  TTLs 0 and DEFAULT_TTL_SECONDS come from the constructors.
TtlInputs == {U64Max}

\* Instants at which the clock is read.
Instants == (0 .. MaxTick) \cup { DEFAULT_TTL_SECONDS + i : i \in 1 .. MaxTick }

VARIABLES
    cache,            \* the GitHubCache: [entries, default_ttl]
    now,              \* the value get_now_seconds() returns
    overflow_checks,  \* build profile: TRUE when u64 overflow panics
    ret,              \* the last operation and what it returned
    Asset,            \* the files embedded from content/blog, in Asset::iter order
    GLOBAL_CACHE,     \* the OnceLock<RwLock<GitHubCache>> of the process
    thread            \* what each thread is doing with the global cache

vars == <<cache, now, overflow_checks, ret, Asset, GLOBAL_CACHE, thread>>

(***************************************************************************)
(* str::to_lowercase and GitHubCache::make_key.                            *)
(***************************************************************************)
UpperToLower ==
    [A |-> "a", B |-> "b", C |-> "c", D |-> "d", E |-> "e", F |-> "f",
     G |-> "g", H |-> "h", I |-> "i", J |-> "j", K |-> "k", L |-> "l",
     M |-> "m", N |-> "n", O |-> "o", P |-> "p", Q |-> "q", R |-> "r",
     S |-> "s", T |-> "t", U |-> "u", V |-> "v", W |-> "w", X |-> "x",
     Y |-> "y", Z |-> "z"]

to_lowercase(s) ==
    [i \in 1 .. Len(s) |->
        IF s[i] \in DOMAIN UpperToLower THEN UpperToLower[s[i]] ELSE s[i]]

\* make_key without the lowercasing.
make_key_raw(owner, repo) == owner \o <<"/">> \o repo

make_key(owner, repo) == to_lowercase(owner) \o <<"/">> \o to_lowercase(repo)

(***************************************************************************)
(* CacheEntry.                                                             *)
(***************************************************************************)
\* u64 addition as the release profile computes it.
wrapping_add(a, b) == (a + b) % (U64Max + 1)

\* u64 addition overflows (a panic when overflow checks are compiled in).
add_overflows(a, b) == a + b > U64Max

CacheEntry_new(data, ttl_seconds, t) ==
    [data |-> data, cached_at |-> t, ttl_seconds |-> ttl_seconds]

is_expired(entry, t) == t > wrapping_add(entry.cached_at, entry.ttl_seconds)

\* is_expired panics instead of returning.
is_expired_panics(entry) ==
    overflow_checks /\ add_overflows(entry.cached_at, entry.ttl_seconds)

(***************************************************************************)
(* GitHubCache: constructors.                                              *)
(***************************************************************************)
EmptyEntries == [k \in {} |-> None]

GitHubCache_new == [entries |-> EmptyEntries, default_ttl |-> DEFAULT_TTL_SECONDS]

GitHubCache_with_ttl(ttl_seconds) ==
    [entries |-> EmptyEntries, default_ttl |-> ttl_seconds]

\* #[derive(Default)]: HashMap::default() and u64::default().
GitHubCache_default == [entries |-> EmptyEntries, default_ttl |-> 0]

(***************************************************************************)
(* HashMap operations on the entries.                                      *)
(***************************************************************************)
insert(entries, key, entry) ==
    [k \in (DOMAIN entries) \cup {key} |-> IF k = key THEN entry ELSE entries[k]]

retain(entries, keep) == [k \in keep |-> entries[k]]

Panic(op) == [op |-> "panic", in |-> op]

Running == ret.op # "panic"

(***************************************************************************)
(* The process-wide cache before its first use, and the threads.           *)
(***************************************************************************)
Threads == 1 .. MaxThreads

\* GLOBAL_CACHE before get_or_init ran: the OnceLock is empty.
Uninitialized ==
    [once |-> "empty", inits |-> 0, readers |-> {}, writer |-> {},
     inserting |-> {}, cache |-> GitHubCache_new]

\* A thread outside get_cached_repo and set_cached_repo.
Idle == [pc |-> "idle"]

(***************************************************************************)
(* Init: a cache built by GitHubCache::new() or GitHubCache::with_ttl, no  *)
(* embedded file, the global cache not yet initialised.                    *)
(***************************************************************************)
Init ==
    /\ cache \in {GitHubCache_new} \cup { GitHubCache_with_ttl(t) : t \in TtlInputs }
    /\ now = 0
    /\ overflow_checks \in BOOLEAN
    /\ ret = [op |-> "new"]
    /\ Asset = <<>>
    /\ GLOBAL_CACHE = Uninitialized
    /\ thread = [t \in Threads |-> Idle]

(***************************************************************************)
(* The clock advances.                                                     *)
(***************************************************************************)
Tick ==
    /\ Running
    /\ \E t \in Instants : t > now /\ now' = t
    /\ ret' = [op |-> "tick"]
    /\ UNCHANGED <<cache, overflow_checks>>
    /\ UNCHANGED <<Asset, GLOBAL_CACHE, thread>>

(***************************************************************************)
(* GitHubCache::get.                                                       *)
(***************************************************************************)
\* A get that returns the entry whatever its age.
get_value_unexpiring(c, owner, repo, t) ==
    IF make_key(owner, repo) \in DOMAIN c.entries
    THEN Some(c.entries[make_key(owner, repo)].data)
    ELSE None

get_value(c, owner, repo, t) ==
    LET key == make_key(owner, repo)
    IN  IF key \in DOMAIN c.entries
        THEN IF is_expired(c.entries[key], t) THEN None
             ELSE Some(c.entries[key].data)
        ELSE None

get_panics(c, owner, repo) ==
    LET key == make_key(owner, repo)
    IN  key \in DOMAIN c.entries /\ is_expired_panics(c.entries[key])

get(owner, repo) ==
    /\ Running
    /\ ret' = IF get_panics(cache, owner, repo) THEN Panic("get")
              ELSE [op |-> "get", owner |-> owner, repo |-> repo,
                    val |-> get_value(cache, owner, repo, now)]
    /\ UNCHANGED <<cache, now, overflow_checks>>
    /\ UNCHANGED <<Asset, GLOBAL_CACHE, thread>>

(***************************************************************************)
(* GitHubCache::set and set_with_ttl.                                      *)
(***************************************************************************)
\* set with the constant in place of the cache's default_ttl.
set_cache_constant_ttl(c, owner, repo, data, t) ==
    [c EXCEPT !.entries =
        insert(c.entries, make_key(owner, repo),
               CacheEntry_new(data, DEFAULT_TTL_SECONDS, t))]

set_cache(c, owner, repo, data, t) ==
    [c EXCEPT !.entries =
        insert(c.entries, make_key(owner, repo), CacheEntry_new(data, c.default_ttl, t))]

set(owner, repo, data) ==
    /\ Running
    /\ cache' = set_cache(cache, owner, repo, data, now)
    /\ ret' = [op |-> "set", owner |-> owner, repo |-> repo, data |-> data]
    /\ UNCHANGED <<now, overflow_checks>>
    /\ UNCHANGED <<Asset, GLOBAL_CACHE, thread>>

set_with_ttl_cache(c, owner, repo, data, ttl_seconds, t) ==
    [c EXCEPT !.entries =
        insert(c.entries, make_key(owner, repo), CacheEntry_new(data, ttl_seconds, t))]

set_with_ttl(owner, repo, data, ttl_seconds) ==
    /\ Running
    /\ cache' = set_with_ttl_cache(cache, owner, repo, data, ttl_seconds, now)
    /\ ret' = [op |-> "set_with_ttl", owner |-> owner, repo |-> repo,
               data |-> data, ttl_seconds |-> ttl_seconds]
    /\ UNCHANGED <<now, overflow_checks>>
    /\ UNCHANGED <<Asset, GLOBAL_CACHE, thread>>

(***************************************************************************)
(* GitHubCache::get_with_stale.                                            *)
(***************************************************************************)
get_with_stale_value(c, owner, repo, t) ==
    LET key == make_key(owner, repo)
    IN  IF key \in DOMAIN c.entries
        THEN Some([data |-> c.entries[key].data,
                   is_stale |-> is_expired(c.entries[key], t)])
        ELSE None

get_with_stale(owner, repo) ==
    /\ Running
    /\ ret' = IF get_panics(cache, owner, repo) THEN Panic("get_with_stale")
              ELSE [op |-> "get_with_stale", owner |-> owner, repo |-> repo,
                    val |-> get_with_stale_value(cache, owner, repo, now)]
    /\ UNCHANGED <<cache, now, overflow_checks>>
    /\ UNCHANGED <<Asset, GLOBAL_CACHE, thread>>

(***************************************************************************)
(* GitHubCache::has_any.                                                   *)
(***************************************************************************)
has_any_value(c, owner, repo) == make_key(owner, repo) \in DOMAIN c.entries

has_any(owner, repo) ==
    /\ Running
    /\ ret' = [op |-> "has_any", owner |-> owner, repo |-> repo,
               val |-> has_any_value(cache, owner, repo)]
    /\ UNCHANGED <<cache, now, overflow_checks>>
    /\ UNCHANGED <<Asset, GLOBAL_CACHE, thread>>

(***************************************************************************)
(* GitHubCache::remove.                                                    *)
(***************************************************************************)
remove_value(c, owner, repo) ==
    LET key == make_key(owner, repo)
    IN  IF key \in DOMAIN c.entries THEN Some(c.entries[key].data) ELSE None

\* remove with the key as given.
remove_cache_raw(c, owner, repo) ==
    [c EXCEPT !.entries =
        retain(c.entries, (DOMAIN c.entries) \ {make_key_raw(owner, repo)})]

remove_cache(c, owner, repo) ==
    [c EXCEPT !.entries =
        retain(c.entries, (DOMAIN c.entries) \ {make_key(owner, repo)})]

remove(owner, repo) ==
    /\ Running
    /\ cache' = remove_cache(cache, owner, repo)
    /\ ret' = [op |-> "remove", owner |-> owner, repo |-> repo,
               val |-> remove_value(cache, owner, repo)]
    /\ UNCHANGED <<now, overflow_checks>>
    /\ UNCHANGED <<Asset, GLOBAL_CACHE, thread>>

(***************************************************************************)
(* GitHubCache::len, len_valid and cleanup_expired.                        *)
(***************************************************************************)
len_value(c) == Cardinality(DOMAIN c.entries)

len ==
    /\ Running
    /\ ret' = [op |-> "len", val |-> len_value(cache)]
    /\ UNCHANGED <<cache, now, overflow_checks>>
    /\ UNCHANGED <<Asset, GLOBAL_CACHE, thread>>

len_valid_value(c, t) ==
    Cardinality({k \in DOMAIN c.entries : ~is_expired(c.entries[k], t)})

\* Some entry makes is_expired panic while the map is iterated.
iteration_panics(c) == \E k \in DOMAIN c.entries : is_expired_panics(c.entries[k])

len_valid ==
    /\ Running
    /\ ret' = IF iteration_panics(cache) THEN Panic("len_valid")
              ELSE [op |-> "len_valid", val |-> len_valid_value(cache, now)]
    /\ UNCHANGED <<cache, now, overflow_checks>>
    /\ UNCHANGED <<Asset, GLOBAL_CACHE, thread>>

cleanup_expired_cache(c, t) ==
    [c EXCEPT !.entries =
        retain(c.entries, {k \in DOMAIN c.entries : ~is_expired(c.entries[k], t)})]

\* HashMap::retain visits the entries in an unspecified order; when
\* is_expired panics on one of them, the expired entries visited before it
\* are already removed.
cleanup_expired ==
    /\ Running
    /\ IF iteration_panics(cache)
       THEN /\ \E gone \in SUBSET {k \in DOMAIN cache.entries :
                                      /\ ~is_expired_panics(cache.entries[k])
                                      /\ is_expired(cache.entries[k], now)} :
                 cache' = [cache EXCEPT !.entries =
                              retain(cache.entries, (DOMAIN cache.entries) \ gone)]
            /\ ret' = Panic("cleanup_expired")
       ELSE /\ cache' = cleanup_expired_cache(cache, now)
            /\ ret' = [op |-> "cleanup_expired", before |-> cache.entries]
    /\ UNCHANGED <<now, overflow_checks>>
    /\ UNCHANGED <<Asset, GLOBAL_CACHE, thread>>

(***************************************************************************)
(* GitHubCache::merge.  The loop handles each key of other once, so its    *)
(* result per key does not depend on the order of iteration.               *)
(***************************************************************************)
\* The match guard with > for >=.
merge_keeps_gt(existing, entry) == existing.cached_at > entry.cached_at

\* The match guard: the receiver's entry stays.
merge_keeps(existing, entry) == existing.cached_at >= entry.cached_at

\* merge that inserts every entry of other.
merge_entries_overwrite(mine, other) ==
    [k \in (DOMAIN mine) \cup (DOMAIN other) |->
        IF k \in DOMAIN other THEN other[k] ELSE mine[k]]

merge_entries(mine, other) ==
    [k \in (DOMAIN mine) \cup (DOMAIN other) |->
        IF k \in DOMAIN other
        THEN IF k \in DOMAIN mine /\ merge_keeps(mine[k], other[k])
             THEN mine[k]
             ELSE other[k]
        ELSE mine[k]]

merge_cache(c, other) == [c EXCEPT !.entries = merge_entries(c.entries, other.entries)]

\* Keys the operations of the model can produce.
Keys == { make_key(n[1], n[2]) : n \in Names }

\* Caches handed to merge: built by new() and set(_, _, MinimalRepo) up to now.
OtherCaches(t) ==
    { [entries |-> e, default_ttl |-> DEFAULT_TTL_SECONDS] :
        e \in UNION { [ks -> [data : {MinimalRepo},
                              cached_at : {i \in Instants : i <= t},
                              ttl_seconds : {DEFAULT_TTL_SECONDS}]] :
                      ks \in SUBSET Keys } }

merge(other) ==
    /\ Running
    /\ cache' = merge_cache(cache, other)
    /\ ret' = [op |-> "merge", other |-> other.entries]
    /\ UNCHANGED <<now, overflow_checks>>
    /\ UNCHANGED <<Asset, GLOBAL_CACHE, thread>>

(***************************************************************************)
(* serde_json: the JSON document of a cache.  A document is a tree of      *)
(* objects, arrays, strings, booleans, null and numbers; a number is its   *)
(* decimal text.                                                           *)
(***************************************************************************)
Ok(x) == [ok |-> TRUE, v |-> x]

Err == [ok |-> FALSE]

JNull == [t |-> "null"]

JBool(b) == [t |-> "bool", b |-> b]

JStr(s) == [t |-> "str", s |-> s]

JArr(items) == [t |-> "arr", items |-> items]

JObj(fields) == [t |-> "obj", fields |-> fields]

RECURSIVE u64_to_decimal(_)
u64_to_decimal(n) ==
    IF n < 10 THEN <<n>> ELSE u64_to_decimal(n \div 10) \o <<n % 10>>

JNum(n) == [t |-> "num", text |-> u64_to_decimal(n)]

RECURSIVE decimal_value(_)
decimal_value(text) ==
    IF Len(text) = 0 THEN 0
    ELSE 10 * decimal_value(SubSeq(text, 1, Len(text) - 1)) + text[Len(text)]

\* Parse of an unsigned integer of at most max: an error when out of range.
parse_unsigned(j, max) ==
    IF j.t = "num" /\ Len(j.text) > 0 /\ decimal_value(j.text) <= max
    THEN Ok(decimal_value(j.text))
    ELSE Err

parse_string(j) == IF j.t = "str" THEN Ok(j.s) ELSE Err

parse_bool(j) == IF j.t = "bool" THEN Ok(j.b) ELSE Err

\* Option<String>: None is null.
option_to_json(o) == IF o.some THEN JStr(o.v) ELSE JNull

parse_option(j) ==
    IF j.t = "null" THEN Ok(None)
    ELSE IF j.t = "str" THEN Ok(Some(j.s))
    ELSE Err

parse_strings(j) ==
    IF j.t = "arr" /\ \A i \in 1 .. Len(j.items) : j.items[i].t = "str"
    THEN Ok([i \in 1 .. Len(j.items) |-> j.items[i].s])
    ELSE Err

U32Max == U64Max

parse_u32(j) == parse_unsigned(j, U32Max)

parse_u64(j) == parse_unsigned(j, U64Max)

\* The Deserialize implementation of a field's type.
parse_as(type, j) ==
    CASE type = "String" -> parse_string(j)
      [] type = "Option<String>" -> parse_option(j)
      [] type = "Vec<String>" -> parse_strings(j)
      [] type = "bool" -> parse_bool(j)
      [] type = "u32" -> parse_u32(j)
      [] type = "u64" -> parse_u64(j)

\* A field marked #[serde(default)]: the default when the field is missing.
\* A derived Deserialize yields the struct when every field parsed, and the
\* first error otherwise; the fields are parsed once.
collect(r) ==
    IF \A n \in DOMAIN r : r[n].ok THEN Ok([n \in DOMAIN r |-> r[n].v]) ELSE Err

deserialize(parsed) == CHOOSE s \in {collect(r) : r \in {parsed}} : TRUE

field_or(fields, name, type, default) ==
    IF name \in DOMAIN fields THEN parse_as(type, fields[name]) ELSE Ok(default)

\* A field without a default: an error when the field is missing.
field(fields, name, type) ==
    IF name \in DOMAIN fields THEN parse_as(type, fields[name]) ELSE Err

\* #[derive(Serialize)] of GitHubRepoInfo.
repo_to_json(d) ==
    JObj([name |-> JStr(d.name), full_name |-> JStr(d.full_name),
          description |-> option_to_json(d.description),
          homepage |-> option_to_json(d.homepage),
          language |-> option_to_json(d.language),
          stargazers_count |-> JNum(d.stargazers_count),
          forks_count |-> JNum(d.forks_count),
          fork |-> JBool(d.fork), archived |-> JBool(d.archived),
          topics |-> JArr([i \in 1 .. Len(d.topics) |-> JStr(d.topics[i])]),
          html_url |-> JStr(d.html_url)])

\* #[derive(Deserialize)] of GitHubRepoInfo.
repo_from_json(j) ==
    IF j.t # "obj" THEN Err
    ELSE LET f == j.fields
         IN  deserialize(
                  [name |-> field(f, "name", "String"),
                   full_name |-> field(f, "full_name", "String"),
                   description |-> field_or(f, "description", "Option<String>", None),
                   homepage |-> field_or(f, "homepage", "Option<String>", None),
                   language |-> field_or(f, "language", "Option<String>", None),
                   stargazers_count |-> field_or(f, "stargazers_count", "u32", 0),
                   forks_count |-> field_or(f, "forks_count", "u32", 0),
                   fork |-> field_or(f, "fork", "bool", FALSE),
                   archived |-> field_or(f, "archived", "bool", FALSE),
                   topics |-> field_or(f, "topics", "Vec<String>", <<>>),
                   html_url |-> field(f, "html_url", "String")])

\* #[derive(Serialize, Deserialize)] of CacheEntry.
entry_to_json(e) ==
    JObj([data |-> repo_to_json(e.data), cached_at |-> JNum(e.cached_at),
          ttl_seconds |-> JNum(e.ttl_seconds)])

entry_from_json(j) ==
    IF j.t # "obj" THEN Err
    ELSE LET f == j.fields
         IN  deserialize(
                  [data |-> IF "data" \in DOMAIN f THEN repo_from_json(f["data"]) ELSE Err,
                   cached_at |-> field(f, "cached_at", "u64"),
                   ttl_seconds |-> field(f, "ttl_seconds", "u64")])

entries_from_json(j) ==
    IF j.t # "obj" THEN Err
    ELSE deserialize([k \in DOMAIN j.fields |-> entry_from_json(j.fields[k])])

(***************************************************************************)
(* GitHubCache::to_json, from_json and load_or_empty.                      *)
(***************************************************************************)
\* to_json with default_ttl skipped.
to_json_skip_default_ttl(c) ==
    JObj([entries |-> JObj([k \in DOMAIN c.entries |-> entry_to_json(c.entries[k])])])

to_json(c) ==
    JObj([entries |-> JObj([k \in DOMAIN c.entries |-> entry_to_json(c.entries[k])]),
          default_ttl |-> JNum(c.default_ttl)])

\* default_ttl carries #[serde(default = "default_ttl")].
from_json(j) ==
    IF j.t # "obj" THEN Err
    ELSE LET f == j.fields
         IN  deserialize(
                  [entries |-> IF "entries" \in DOMAIN f
                               THEN entries_from_json(f["entries"]) ELSE Err,
                   default_ttl |-> field_or(f, "default_ttl", "u64",
                                            DEFAULT_TTL_SECONDS)])

\* Result::unwrap_or_default.
unwrap_or_default(r) == IF r.ok THEN r.v ELSE GitHubCache_default

load_or_empty_value(j) == unwrap_or_default(from_json(j))

\* A string that is not JSON.
InvalidJson == [t |-> "invalid"]

without(j, name) == JObj([n \in (DOMAIN j.fields) \ {name} |-> j.fields[n]])

\* The documents read back: the one to_json wrote, an older one without
\* default_ttl, a damaged one without entries, and a string that is not JSON.
DocumentKinds == {"written", "no_default_ttl", "no_entries", "not_json"}

document(c, kind) ==
    CASE kind = "written" -> to_json(c)
      [] kind = "no_default_ttl" -> without(to_json(c), "default_ttl")
      [] kind = "no_entries" -> without(to_json(c), "entries")
      [] kind = "not_json" -> InvalidJson

\* load_or_empty: the cache is replaced by the one read from the document.
load_or_empty(kind) ==
    /\ Running
    /\ LET doc == document(cache, kind)
       IN  /\ cache' = load_or_empty_value(doc)
           /\ ret' = [op |-> "load_or_empty", kind |-> kind,
                      parsed |-> from_json(doc).ok]
    /\ UNCHANGED <<now, overflow_checks>>
    /\ UNCHANGED <<Asset, GLOBAL_CACHE, thread>>

\* from_json: on Ok the cache is replaced, on Err the caller keeps its cache.
restore(kind) ==
    /\ Running
    /\ LET r == from_json(document(cache, kind))
       IN  /\ cache' = IF r.ok THEN r.v ELSE cache
           /\ ret' = [op |-> "from_json", kind |-> kind, parsed |-> r.ok]
    /\ UNCHANGED <<now, overflow_checks>>
    /\ UNCHANGED <<Asset, GLOBAL_CACHE, thread>>

(***************************************************************************)
(* The operations of the cache, grouped.                                   *)
(***************************************************************************)
Write ==
    \/ \E n \in Names, d \in RepoInfos : set(n[1], n[2], d)
    \/ \E n \in Names, d \in RepoInfos, t \in TtlInputs : set_with_ttl(n[1], n[2], d, t)

Read ==
    \/ \E n \in Names : get(n[1], n[2])
    \/ \E n \in Names : get_with_stale(n[1], n[2])
    \/ \E n \in Names : has_any(n[1], n[2])
    \/ len
    \/ len_valid

Drop ==
    \/ \E n \in Names : remove(n[1], n[2])
    \/ cleanup_expired

Merge == \E other \in OtherCaches(now) : merge(other)

Persist ==
    \/ \E kind \in DocumentKinds : load_or_empty(kind)
    \/ \E kind \in DocumentKinds : restore(kind)


\* The cache in memory: reads, writes and removals.
NextCache == Tick \/ Write \/ Read \/ Drop

SpecCache == Init /\ [][NextCache]_vars

\* Two caches merged.
NextMerge == Tick \/ Write \/ Merge

SpecMerge == Init /\ [][NextMerge]_vars

\* The cache written to and read back from its JSON document.
NextPersist == Tick \/ Write \/ Drop \/ Merge \/ Persist

SpecPersist == Init /\ [][NextPersist]_vars

(***************************************************************************)
(* Properties.  Expiry is stated over unbounded integers: an entry is      *)
(* fresh at t when t <= cached_at + ttl_seconds.                           *)
(***************************************************************************)
fresh_at(entry, t) == t <= entry.cached_at + entry.ttl_seconds

\* Two (owner, repo) pairs are equal up to letter case.
same_up_to_case(n, m) ==
    to_lowercase(n[1]) = to_lowercase(m[1]) /\ to_lowercase(n[2]) = to_lowercase(m[2])

normalized(n) == to_lowercase(n[1]) \o <<"/">> \o to_lowercase(n[2])

\* C1: get(owner, repo) returns the stored metadata if and only if an entry
\* exists under the normalized key and now <= cached_at + ttl_seconds, and
\* None when the key is absent or the entry is expired.
C1_GetReturnsFreshEntry ==
    /\ ~(ret.op = "panic" /\ ret.in = "get")
    /\ ret.op = "get" =>
          LET key == normalized(<<ret.owner, ret.repo>>)
          IN  ret.val = IF key \in DOMAIN cache.entries /\ fresh_at(cache.entries[key], now)
                        THEN Some(cache.entries[key].data)
                        ELSE None

\* C2: get_with_stale returns Some((data, is_stale)) for every key that has
\* an entry, with is_stale true exactly when the entry is expired; get
\* returns Some exactly when get_with_stale returns Some with is_stale =
\* false, and both return the same data.
C2_GetWithStaleFlagsExpiry ==
    /\ ~(ret.op = "panic" /\ ret.in = "get_with_stale")
    /\ ret.op = "get_with_stale" =>
          LET key == normalized(<<ret.owner, ret.repo>>)
          IN  ret.val = IF key \in DOMAIN cache.entries
                        THEN Some([data |-> cache.entries[key].data,
                                   is_stale |-> ~fresh_at(cache.entries[key], now)])
                        ELSE None
    /\ \A n \in Names :
          LET g == get_value(cache, n[1], n[2], now)
              s == get_with_stale_value(cache, n[1], n[2], now)
          IN  /\ g.some <=> (s.some /\ ~s.v.is_stale)
              /\ g.some => g.v = s.v.data

\* C3: cache keys are case-insensitive: after set(o, r, x) every get,
\* get_with_stale, has_any and remove called with a pair equal to (o, r) up
\* to letter case addresses that entry, and the cache never holds two
\* entries whose keys differ only in case.
C3_KeysCaseInsensitive ==
    /\ \A k1, k2 \in DOMAIN cache.entries :
          to_lowercase(k1) = to_lowercase(k2) => k1 = k2
    /\ \A n, m \in Names :
          same_up_to_case(n, m) =>
             /\ get_value(cache, n[1], n[2], now) = get_value(cache, m[1], m[2], now)
             /\ get_with_stale_value(cache, n[1], n[2], now)
                   = get_with_stale_value(cache, m[1], m[2], now)
             /\ has_any_value(cache, n[1], n[2]) = has_any_value(cache, m[1], m[2])
             /\ remove_value(cache, n[1], n[2]) = remove_value(cache, m[1], m[2])
             /\ remove_cache(cache, n[1], n[2]) = remove_cache(cache, m[1], m[2])
    /\ ret.op \in {"set", "set_with_ttl"} =>
          \A m \in Names :
             same_up_to_case(m, <<ret.owner, ret.repo>>) =>
                /\ has_any_value(cache, m[1], m[2])
                /\ get_with_stale_value(cache, m[1], m[2], now).v.data = ret.data
                /\ remove_value(cache, m[1], m[2]) = Some(ret.data)
                /\ len_value(remove_cache(cache, m[1], m[2])) = len_value(cache) - 1

\* C3 witness: an entry set under one spelling is read under another one.
C3_Witness ==
    /\ ret.op = "set"
    /\ ret.owner = <<"O", "w">> /\ ret.repo = <<"R", "E">>
    /\ get_value(cache, <<"o", "w">>, <<"r", "e">>, now) = Some(ret.data)
    /\ len_value(cache) = 2

\* C4: set(owner, repo, data) inserts or overwrites exactly one entry: the
\* entry of that key then holds data with cached_at = now and ttl_seconds =
\* default_ttl (so it is fresh again), len grows by one only if the key was
\* absent, and every other entry and default_ttl are unchanged.
C4_SetWritesOneEntry ==
    [][ret'.op = "set" =>
          LET key == normalized(<<ret'.owner, ret'.repo>>)
          IN  /\ DOMAIN cache'.entries = (DOMAIN cache.entries) \cup {key}
              /\ cache'.entries[key] = [data |-> ret'.data, cached_at |-> now,
                                        ttl_seconds |-> cache.default_ttl]
              /\ fresh_at(cache'.entries[key], now)
              /\ len_value(cache') = len_value(cache)
                                       + (IF key \in DOMAIN cache.entries THEN 0 ELSE 1)
              /\ \A k \in (DOMAIN cache.entries) \ {key} :
                    cache'.entries[k] = cache.entries[k]
              /\ cache'.default_ttl = cache.default_ttl]_vars

\* C4 witness: a set at a later instant next to an older entry of the other
\* key, in a cache built by with_ttl.
C4_Witness ==
    /\ ret.op = "set"
    /\ cache.default_ttl # DEFAULT_TTL_SECONDS
    /\ now > 0
    /\ cache.entries[normalized(<<ret.owner, ret.repo>>)].cached_at = now
    /\ \E k \in DOMAIN cache.entries : cache.entries[k].cached_at < now

\* C5: remove(owner, repo) returns the stored metadata whenever an entry
\* exists for the key, expired or not, and None otherwise; afterwards get,
\* get_with_stale and has_any report the key as absent, the key stays absent
\* until it is written again, and all other entries are unchanged.
C5_RemoveDropsOneEntry ==
    [][/\ ret'.op = "remove" =>
             LET key == normalized(<<ret'.owner, ret'.repo>>)
             IN  /\ ret'.val = IF key \in DOMAIN cache.entries
                               THEN Some(cache.entries[key].data)
                               ELSE None
                 /\ DOMAIN cache'.entries = (DOMAIN cache.entries) \ {key}
                 /\ get_value(cache', ret'.owner, ret'.repo, now') = None
                 /\ get_with_stale_value(cache', ret'.owner, ret'.repo, now') = None
                 /\ ~has_any_value(cache', ret'.owner, ret'.repo)
                 /\ \A k \in DOMAIN cache'.entries : cache'.entries[k] = cache.entries[k]
                 /\ cache'.default_ttl = cache.default_ttl
       /\ \A k \in (DOMAIN cache'.entries) \ (DOMAIN cache.entries) :
             ret'.op \in {"set", "set_with_ttl", "merge", "from_json", "load_or_empty"}]_vars

\* C5 witness: remove returned the metadata of an entry and left the other
\* entry in place.
C5_Witness ==
    /\ ret.op = "remove"
    /\ ret.val.some
    /\ len_value(cache) = 1
    /\ ~has_any_value(cache, ret.owner, ret.repo)

\* C6: cleanup_expired removes exactly the entries that are expired at the
\* time of the call and retains every other entry unchanged; right after it
\* len() = len_valid(); in every state len_valid() <= len() and len_valid()
\* is the number of keys for which get returns Some.
C6_CleanupRemovesExpired ==
    /\ ~(ret.op = "panic" /\ ret.in \in {"cleanup_expired", "len_valid"})
    /\ ret.op = "cleanup_expired" =>
          /\ DOMAIN cache.entries = {k \in DOMAIN ret.before : fresh_at(ret.before[k], now)}
          /\ \A k \in DOMAIN cache.entries : cache.entries[k] = ret.before[k]
          /\ len_value(cache) = len_valid_value(cache, now)
    /\ len_valid_value(cache, now) <= len_value(cache)
    /\ len_valid_value(cache, now)
          = Cardinality({normalized(n) : n \in {m \in Names :
                                        get_value(cache, m[1], m[2], now).some}})
    /\ ret.op = "len_valid" =>
          ret.val = Cardinality({k \in DOMAIN cache.entries :
                                    \E m \in Names : /\ normalized(m) = k
                                                     /\ get_value(cache, m[1], m[2], now).some})

\* C7: after self.merge(other) the key set is the union of both key sets; a
\* key present in both gets the entry with the strictly larger cached_at
\* and, when the cached_at values are equal, the receiver's entry; a key
\* present in one cache keeps that cache's entry.
C7_MergeKeepsNewer ==
    [][ret'.op = "merge" =>
          LET mine == cache.entries
              other == ret'.other
              merged == cache'.entries
          IN  /\ DOMAIN merged = (DOMAIN mine) \cup (DOMAIN other)
              /\ \A k \in (DOMAIN mine) \cap (DOMAIN other) :
                    /\ other[k].cached_at > mine[k].cached_at => merged[k] = other[k]
                    /\ other[k].cached_at < mine[k].cached_at => merged[k] = mine[k]
                    /\ other[k].cached_at = mine[k].cached_at => merged[k] = mine[k]
              /\ \A k \in (DOMAIN mine) \ (DOMAIN other) : merged[k] = mine[k]
              /\ \A k \in (DOMAIN other) \ (DOMAIN mine) : merged[k] = other[k]
              /\ cache'.default_ttl = cache.default_ttl]_vars

\* C7 witness: a merge that kept the receiver's entry on equal cached_at and
\* took the other cache's newer entry for another key.
C7_Witness ==
    /\ ret.op = "merge"
    /\ \E k \in DOMAIN ret.other :
          /\ cache.entries[k] # ret.other[k]
          /\ cache.entries[k].cached_at = ret.other[k].cached_at
    /\ \E k \in DOMAIN ret.other :
          /\ cache.entries[k] = ret.other[k]
          /\ cache.entries[k].cached_at = now

\* C8 as stated: A.merge(B) and B.merge(A) end with the same key set and the
\* same entry for every key.
C8_MergeOrderIndependent ==
    [][ret'.op = "merge" =>
          cache'.entries = merge_entries(ret'.other, cache.entries)]_vars

\* C8 amended: A.merge(B) and B.merge(A) end with the same key set and with
\* the same entry for every key that is in one cache only or whose cached_at
\* differs between the caches; for a key with equal cached_at in both, each
\* result keeps the entry of its own receiver.
C8_MergeOrderIndependentButTies ==
    [][ret'.op = "merge" =>
          LET ab == cache'.entries
              ba == merge_entries(ret'.other, cache.entries)
          IN  /\ DOMAIN ab = DOMAIN ba
              /\ \A k \in DOMAIN ab :
                    IF /\ k \in DOMAIN cache.entries
                       /\ k \in DOMAIN ret'.other
                       /\ cache.entries[k].cached_at = ret'.other[k].cached_at
                    THEN ab[k] = cache.entries[k] /\ ba[k] = ret'.other[k]
                    ELSE ab[k] = ba[k]]_vars

\* C8 witness: a merge whose other cache held an older entry of a key that
\* the receiver keeps, and a key the receiver did not have.
C8_Witness ==
    /\ ret.op = "merge"
    /\ \E k \in DOMAIN ret.other :
          cache.entries[k].cached_at > ret.other[k].cached_at
    /\ Cardinality(DOMAIN ret.other) = 2
    /\ now > DEFAULT_TTL_SECONDS

\* C9: persistence round-trips: from_json(to_json(c)) succeeds and yields a
\* cache with the same keys, the same data, cached_at and ttl_seconds for
\* each key, and the same default_ttl.
C9_JsonRoundTrip ==
    /\ from_json(to_json(cache)) = Ok(cache)
    /\ load_or_empty_value(to_json(cache)) = cache

\* C9 witness: a cache with two entries, one of them without description or
\* homepage, and a default_ttl other than the default was read back.
C9_Witness ==
    /\ ret.op = "from_json" /\ ret.kind = "written" /\ ret.parsed
    /\ len_value(cache) = 2
    /\ cache.default_ttl # DEFAULT_TTL_SECONDS
    /\ \E k \in DOMAIN cache.entries : cache.entries[k].data = MinimalRepo
    /\ \E k \in DOMAIN cache.entries : cache.entries[k].data = TestRepo

\* C10: on a string that does not deserialize, load_or_empty returns an
\* empty cache that behaves like GitHubCache::new(): len() = 0, and an entry
\* inserted afterwards with set gets the TTL of 3600 seconds.
C10_LoadOrEmptyIsNew ==
    /\ [](ret.op = "load_or_empty" /\ ~ret.parsed => len_value(cache) = 0)
    /\ [][ret.op = "load_or_empty" /\ ~ret.parsed /\ ret'.op = "set" =>
             LET e == cache'.entries[normalized(<<ret'.owner, ret'.repo>>)]
             IN  /\ e.ttl_seconds = DEFAULT_TTL_SECONDS
                 /\ ~is_expired(e, e.cached_at + DEFAULT_TTL_SECONDS)]_vars

(***************************************************************************)
(* String operations of the URL parsers, on sequences of one-character     *)
(* strings.                                                                *)
(***************************************************************************)
\* char::is_whitespace, for the characters of the model.
is_whitespace(c) == c \in {" ", "\t", "\n"}

RECURSIVE trim_start(_)
trim_start(s) ==
    IF s # <<>> /\ is_whitespace(Head(s)) THEN trim_start(Tail(s)) ELSE s

RECURSIVE trim_end(_)
trim_end(s) ==
    IF s # <<>> /\ is_whitespace(s[Len(s)])
    THEN trim_end(SubSeq(s, 1, Len(s) - 1))
    ELSE s

\* str::trim.
trim(s) == trim_end(trim_start(s))

\* str::starts_with, str::ends_with and str::strip_prefix.
starts_with(s, prefix) ==
    Len(s) >= Len(prefix) /\ SubSeq(s, 1, Len(prefix)) = prefix

ends_with(s, suffix) ==
    Len(s) >= Len(suffix) /\ SubSeq(s, Len(s) - Len(suffix) + 1, Len(s)) = suffix

strip_prefix(s, prefix) ==
    IF starts_with(s, prefix) THEN Some(SubSeq(s, Len(prefix) + 1, Len(s))) ELSE None

\* str::trim_end_matches: the pattern is removed as often as it ends the string.
RECURSIVE trim_end_matches(_, _)
trim_end_matches(s, pat) ==
    IF pat # <<>> /\ ends_with(s, pat)
    THEN trim_end_matches(SubSeq(s, 1, Len(s) - Len(pat)), pat)
    ELSE s

\* str::split(char): the pieces between the separators, empty ones included.
RECURSIVE split(_, _)
split(s, sep) ==
    IF \A i \in 1 .. Len(s) : s[i] # sep THEN <<s>>
    ELSE LET i == CHOOSE k \in 1 .. Len(s) :
                      s[k] = sep /\ \A j \in 1 .. k - 1 : s[j] # sep
         IN  <<SubSeq(s, 1, i - 1)>> \o split(SubSeq(s, i + 1, Len(s)), sep)

is_empty(s) == s = <<>>

(***************************************************************************)
(* The text of the URLs.                                                   *)
(***************************************************************************)
Https == <<"h", "t", "t", "p", "s", ":", "/", "/">>

Http == <<"h", "t", "t", "p", ":", "/", "/">>

GithubCom == <<"g", "i", "t", "h", "u", "b", ".", "c", "o", "m">>

GitlabCom == <<"g", "i", "t", "l", "a", "b", ".", "c", "o", "m">>

Slash == <<"/">>

DotGit == <<".", "g", "i", "t">>

(***************************************************************************)
(* utils/github_api.rs: parse_github_url, the parser of the enrichment.    *)
(***************************************************************************)
parse_github_url_value(github_url) ==
    LET url == trim(github_url)
        path == IF starts_with(url, Https \o GithubCom \o Slash)
                THEN strip_prefix(url, Https \o GithubCom \o Slash)
                ELSE IF starts_with(url, Http \o GithubCom \o Slash)
                THEN strip_prefix(url, Http \o GithubCom \o Slash)
                ELSE IF starts_with(url, GithubCom \o Slash)
                THEN strip_prefix(url, GithubCom \o Slash)
                ELSE None
    IN  IF ~path.some THEN None
        ELSE LET parts == SelectSeq(split(path.v, "/"), LAMBDA p : ~is_empty(p))
             IN  IF Len(parts) >= 2 THEN Some(<<parts[1], parts[2]>>) ELSE None

(***************************************************************************)
(* utils/project_images.rs: parse_github_url, the parser of the previews.  *)
(***************************************************************************)
project_images_parse_github_url_value(url) ==
    LET normalized_url == trim_end_matches(trim_end_matches(url, Slash), DotGit)
        parts == split(normalized_url, "/")
    IN  IF /\ Len(parts) >= 5
           /\ ~is_empty(parts[Len(parts) - 1])
           /\ ~is_empty(parts[Len(parts)])
        THEN Some(<<parts[Len(parts) - 1], parts[Len(parts)]>>)
        ELSE None

(***************************************************************************)
(* The URLs handed to the parsers: scheme, host, path segments, one of the *)
(* endings a repository URL is written with, a query and padding.          *)
(***************************************************************************)
Owner == <<"o", "w">>

Repo == <<"r", "e">>

Schemes == {Https, Http, <<>>}

Hosts == {GithubCom, GitlabCom}

SegmentLists == {<<>>, <<Owner>>, <<Owner, Repo>>, <<Owner, <<>>, Repo>>,
                 <<Owner, Repo, <<"x">>>>}

Endings == {<<>>, Slash, DotGit, DotGit \o Slash}

Queries == {<<>>, <<"?", "t">>}

Paddings == {<<>>, <<" ">>}

RECURSIVE join_segments(_)
join_segments(segments) ==
    IF segments = <<>> THEN <<>>
    ELSE Slash \o Head(segments) \o join_segments(Tail(segments))

\* A ".git" ending belongs to the last segment, so it needs one.
GitHubUrls ==
    { u \in [scheme : Schemes, host : Hosts, segments : SegmentLists,
             ending : Endings, query : Queries, padding : Paddings] :
        u.segments = <<>> => u.ending \in {<<>>, Slash} }

url_text(u) ==
    u.scheme \o u.host \o join_segments(u.segments) \o u.ending \o u.query
        \o u.padding

\* The enrichment parses a URL.
parse_github_url(u) ==
    /\ Running
    /\ ret' = [op |-> "parse_github_url", input |-> u, url |-> url_text(u),
               result |-> parse_github_url_value(url_text(u))]
    /\ UNCHANGED <<cache, now, overflow_checks>>
    /\ UNCHANGED <<Asset, GLOBAL_CACHE, thread>>

\* The image preview parses a URL.
project_images_parse_github_url(u) ==
    /\ Running
    /\ ret' = [op |-> "project_images::parse_github_url", input |-> u,
               url |-> url_text(u),
               result |-> project_images_parse_github_url_value(url_text(u))]
    /\ UNCHANGED <<cache, now, overflow_checks>>
    /\ UNCHANGED <<Asset, GLOBAL_CACHE, thread>>

ParseUrl ==
    \/ \E u \in GitHubUrls : parse_github_url(u)
    \/ \E u \in GitHubUrls : project_images_parse_github_url(u)

NextUrl == ParseUrl

SpecUrl == Init /\ [][NextUrl]_vars

(***************************************************************************)
(* Properties of the URL parsers.                                          *)
(***************************************************************************)
\* The path segments of a URL that are not empty.
non_empty_segments(u) == SelectSeq(u.segments, LAMBDA p : ~is_empty(p))

\* https://github.com/owner/repo, http://github.com/owner/repo or
\* github.com/owner/repo, as it is or with one trailing "/" or ".git".
is_repository_url(u) ==
    /\ u.host = GithubCom
    /\ Len(u.segments) = 2 /\ Len(non_empty_segments(u)) = 2
    /\ u.ending \in {<<>>, Slash, DotGit}
    /\ u.query = <<>> /\ u.padding = <<>>

\* C11: parse_github_url returns Some((owner, repo)) for the https, http and
\* protocol-less forms of a repository URL, also with one trailing "/" or
\* one trailing ".git", which is stripped.
C11_ParsesRepositoryUrl ==
    ret.op = "parse_github_url" /\ is_repository_url(ret.input) =>
        ret.result = Some(<<ret.input.segments[1], ret.input.segments[2]>>)

\* C12: parse_github_url returns None for every URL whose host is not
\* github.com and for every github.com URL whose path has fewer than two
\* non-empty segments.
C12_RejectsOtherUrls ==
    ret.op = "parse_github_url" =>
        (ret.input.host # GithubCom \/ Len(non_empty_segments(ret.input)) < 2
            => ret.result = None)

\* C13: the two parsers return the same (owner, repo) for every well-formed
\* repository URL, the protocol-less, trailing-slash and ".git" forms
\* included.
C13_ParsersAgree ==
    ret.op \in {"parse_github_url", "project_images::parse_github_url"}
        /\ is_repository_url(ret.input) =>
            parse_github_url_value(ret.url)
                = project_images_parse_github_url_value(ret.url)

(***************************************************************************)
(* utils/github_api.rs: the static repository data and its lookup.  The    *)
(* names the code compares (full_name, homepage, topics) are sequences of  *)
(* one-character strings.                                                  *)
(***************************************************************************)
\* An entry of get_static_repo_data for the repository Ow/Re.
StaticRepo(homepage, description, topics) ==
    [name |-> "Re", full_name |-> <<"O", "w", "/", "R", "e">>,
     description |-> description, homepage |-> homepage,
     language |-> Some("Rust"), stargazers_count |-> 0, forks_count |-> 0,
     fork |-> FALSE, archived |-> FALSE, topics |-> topics,
     html_url |-> "https://github.com/Ow/Re"]

\* Another entry, without homepage, as nvim-config in the static data.
OtherRepo ==
    [name |-> "nv", full_name |-> <<"O", "w", "/", "n", "v">>,
     description |-> Some("Personal Neovim configuration"), homepage |-> None,
     language |-> Some("Lua"), stargazers_count |-> 0, forks_count |-> 0,
     fork |-> FALSE, archived |-> FALSE, topics |-> << <<"l", "u", "a">> >>,
     html_url |-> "https://github.com/Ow/nv"]

DemoHost == <<"d", ".", "e", "v">>

\* homepage values: absent, empty, blank, with and without the http prefix,
\* and padded with whitespace.
Homepages ==
    {None, Some(<<>>), Some(<<" ">>), Some(DemoHost), Some(Https \o DemoHost),
     Some(Http \o DemoHost), Some(<<" ">> \o Https \o DemoHost \o <<" ">>)}

Descriptions == {None, Some(""), Some("Description on GitHub")}

Rs == <<"r", "s">>

Wasm == <<"w", "a", "s", "m">>

\* topics values: none, and "rs", "wasm", "RS".
TopicLists == {<<>>, <<Rs, Wasm, <<"R", "S">>>>}

StaticRepos ==
    { StaticRepo(h, Some("Description on GitHub"), <<Rs, Wasm, <<"R", "S">>>>) :
        h \in Homepages }
    \cup { StaticRepo(Some(Https \o DemoHost), d, t) :
             d \in Descriptions, t \in TopicLists }

\* The tables get_static_repo_data can hold: with or without Ow/Re.
StaticRepoData == {<<OtherRepo>>} \cup { <<OtherRepo, r>> : r \in StaticRepos }

\* extract_homepage with the http prefix not required.
extract_homepage_any_text(repo_info) ==
    IF ~repo_info.homepage.some THEN None
    ELSE IF is_empty(trim(repo_info.homepage.v)) THEN None
    ELSE Some(trim(repo_info.homepage.v))

extract_homepage(repo_info) ==
    IF ~repo_info.homepage.some THEN None
    ELSE IF is_empty(trim(repo_info.homepage.v)) THEN None
    ELSE IF \/ starts_with(trim(repo_info.homepage.v), Http)
            \/ starts_with(trim(repo_info.homepage.v), Https)
    THEN Some(trim(repo_info.homepage.v))
    ELSE None

\* A lookup that succeeds once and is refused when repeated.
get_repo_info_once(data, owner, repo) ==
    IF ret.op = "enrich_project_with_github" THEN Err
    ELSE LET found == SelectSeq(data, LAMBDA r :
                 to_lowercase(r.full_name) = to_lowercase(owner \o Slash \o repo))
         IN  IF found # <<>> THEN Ok(Head(found)) ELSE Err

\* get_repo_info: the first entry whose full_name matches, case-insensitively.
get_repo_info(data, owner, repo) ==
    LET found == SelectSeq(data, LAMBDA r :
            to_lowercase(r.full_name) = to_lowercase(owner \o Slash \o repo))
    IN  IF found # <<>> THEN Ok(Head(found)) ELSE Err

(***************************************************************************)
(* components/projects.rs: Project, EnrichedProject and the enrichment.    *)
(***************************************************************************)
Project(id, technologies, github_url, demo_url) ==
    [id |-> id, title |-> "Title",
     description_en |-> "Static description", description_es |-> "Descripcion",
     long_description_en |-> "Long description",
     long_description_es |-> "Descripcion larga",
     technologies |-> technologies, status |-> "Featured",
     github_url |-> github_url, demo_url |-> demo_url,
     image_override |-> None, image_fallback |-> "icon"]

ManualDemo == Https \o <<"m", ".", "e", "v">>

Cli == <<"C", "L", "I">>

\* technologies values: none, and "Rs", "CLI".
TechnologyLists == {<<>>, << <<"R", "s">>, Cli >>}

\* github_url values: absent, the repository Ow/Re in lower case, its ".git"
\* form, a repository that is not in the static data, and another host.
GithubUrlInputs ==
    {None,
     Some(Https \o GithubCom \o join_segments(<<Owner, Repo>>)),
     Some(Https \o GithubCom \o join_segments(<<Owner, Repo>>) \o DotGit),
     Some(Https \o GithubCom \o join_segments(<<Owner, <<"x">>>>)),
     Some(Https \o GitlabCom \o join_segments(<<Owner, Repo>>))}

Projects ==
    { Project("project", t, g, d) :
        t \in TechnologyLists, g \in GithubUrlInputs,
        d \in {None, Some(ManualDemo)} }

\* get_projects: two projects with a manual demo_url, two without.
get_projects ==
    << Project("enerby-dev", << <<"R", "s">>, Cli >>,
               Some(Https \o GithubCom \o join_segments(<<Owner, Repo>>)),
               Some(ManualDemo)),
       Project("oc-diagdoc", << <<"R", "s">>, Cli >>,
               Some(Https \o GithubCom \o join_segments(<<Owner, <<"x">>>>)),
               Some(ManualDemo)),
       Project("affinity-legacy-bridge", << Cli >>,
               Some(Https \o GithubCom \o join_segments(<<Owner, Repo>>)), None),
       Project("videoginiusai", << Cli >>,
               Some(Https \o GithubCom \o join_segments(<<Owner, <<"n", "v">>>>)),
               None) >>

\* From<Project> with demo_url_source always None.
EnrichedProject_from_unmarked(p) ==
    [id |-> p.id, title |-> p.title,
     description_en |-> p.description_en, description_es |-> p.description_es,
     long_description_en |-> p.long_description_en,
     long_description_es |-> p.long_description_es,
     technologies |-> p.technologies, status |-> p.status,
     github_url |-> p.github_url, demo_url |-> p.demo_url,
     image_override |-> p.image_override, image_fallback |-> p.image_fallback,
     demo_url_source |-> "None"]

\* impl From<Project> for EnrichedProject.
EnrichedProject_from(p) ==
    [id |-> p.id, title |-> p.title,
     description_en |-> p.description_en, description_es |-> p.description_es,
     long_description_en |-> p.long_description_en,
     long_description_es |-> p.long_description_es,
     technologies |-> p.technologies, status |-> p.status,
     github_url |-> p.github_url, demo_url |-> p.demo_url,
     image_override |-> p.image_override, image_fallback |-> p.image_fallback,
     demo_url_source |-> IF p.demo_url.some THEN "Manual" ELSE "None"]

\* str::eq_ignore_ascii_case.
eq_ignore_ascii_case(a, b) == to_lowercase(a) = to_lowercase(b)

\* "Enrich Homepage".
enrich_homepage(enriched, repo_info) ==
    IF extract_homepage(repo_info).some
    THEN [enriched EXCEPT !.demo_url = extract_homepage(repo_info),
                          !.demo_url_source = "GitHub"]
    ELSE enriched

\* The description written to both languages.
enrich_description_both(enriched, repo_info) ==
    IF repo_info.description.some /\ repo_info.description.v # ""
    THEN [enriched EXCEPT !.description_en = repo_info.description.v,
                          !.description_es = repo_info.description.v]
    ELSE enriched

\* "Enrich Description": only the English field is written.
enrich_description(enriched, repo_info) ==
    IF repo_info.description.some /\ repo_info.description.v # ""
    THEN [enriched EXCEPT !.description_en = repo_info.description.v]
    ELSE enriched

\* The loop over enriched.technologies: a technology is pushed unless
\* new_techs already holds it, case-insensitively.
RECURSIVE push_technologies(_, _)
push_technologies(new_techs, technologies) ==
    IF technologies = <<>> THEN new_techs
    ELSE push_technologies(
             IF \E i \in 1 .. Len(new_techs) :
                    eq_ignore_ascii_case(new_techs[i], Head(technologies))
             THEN new_techs
             ELSE Append(new_techs, Head(technologies)),
             Tail(technologies))

\* "Enrich Technologies/Topics": new_techs starts as the topics.
enrich_technologies(enriched, repo_info) ==
    IF ~is_empty(repo_info.topics)
    THEN [enriched EXCEPT
              !.technologies = push_technologies(repo_info.topics,
                                                 enriched.technologies)]
    ELSE enriched

\* What enrichment does with the repository it found.
enrich_with(enriched, repo_info) ==
    enrich_technologies(
        enrich_description(enrich_homepage(enriched, repo_info), repo_info),
        repo_info)

\* The part of enrich_project_with_github after the manual demo_url check.
enrich_from_github(enriched, project, data) ==
    IF ~project.github_url.some THEN enriched
    ELSE IF ~parse_github_url_value(project.github_url.v).some THEN enriched
    ELSE LET name == parse_github_url_value(project.github_url.v).v
         IN  IF get_repo_info(data, name[1], name[2]).ok
             THEN enrich_with(enriched, get_repo_info(data, name[1], name[2]).v)
             ELSE enriched

\* Enrichment without the early return for a manual demo_url.
enrich_always(project, data) ==
    enrich_from_github(EnrichedProject_from(project), project, data)

enrich_project_with_github_value(project, data) ==
    IF EnrichedProject_from(project).demo_url.some
    THEN EnrichedProject_from(project)
    ELSE enrich_from_github(EnrichedProject_from(project), project, data)

get_projects_enriched_value(data) ==
    [i \in 1 .. Len(get_projects) |->
        enrich_project_with_github_value(get_projects[i], data)]

\* EnrichedProject::from(project).
from(project) ==
    /\ Running
    /\ ret' = [op |-> "from", project |-> project,
               result |-> EnrichedProject_from(project)]
    /\ UNCHANGED <<cache, now, overflow_checks>>
    /\ UNCHANGED <<Asset, GLOBAL_CACHE, thread>>

\* A call of enrich_project_with_github.  ret counts the calls made in a row
\* with the same project over the same static data, up to MaxCalls, and
\* keeps what the first of them returned.
enrich_project_with_github(project, data) ==
    /\ Running
    /\ LET again == /\ ret.op = "enrich_project_with_github"
                     /\ ret.project = project /\ ret.data = data
       IN  /\ again => ret.calls < MaxCalls
           /\ \E result \in {enrich_project_with_github_value(project, data)} :
                  ret' = [op |-> "enrich_project_with_github",
                          project |-> project, data |-> data,
                          result |-> result,
                          calls |-> IF again THEN ret.calls + 1 ELSE 1,
                          first |-> IF again THEN ret.first ELSE result]
    /\ UNCHANGED <<cache, now, overflow_checks>>
    /\ UNCHANGED <<Asset, GLOBAL_CACHE, thread>>

get_projects_enriched(data) ==
    /\ Running
    /\ ret' = [op |-> "get_projects_enriched", data |-> data,
               result |-> get_projects_enriched_value(data)]
    /\ UNCHANGED <<cache, now, overflow_checks>>
    /\ UNCHANGED <<Asset, GLOBAL_CACHE, thread>>

Enrich ==
    \/ \E project \in Projects : from(project)
    \/ \E project \in Projects, data \in StaticRepoData :
           enrich_project_with_github(project, data)
    \/ \E data \in StaticRepoData : get_projects_enriched(data)

NextEnrich == Enrich

SpecEnrich == Init /\ [][NextEnrich]_vars

(***************************************************************************)
(* Properties of the enrichment.                                           *)
(***************************************************************************)
\* The entries of the static data that a project's github_url names.
named_by(project, data) ==
    IF ~project.github_url.some THEN <<>>
    ELSE IF ~parse_github_url_value(project.github_url.v).some THEN <<>>
    ELSE SelectSeq(data, LAMBDA r :
             to_lowercase(r.full_name) =
                 to_lowercase(parse_github_url_value(project.github_url.v).v[1]
                              \o Slash
                              \o parse_github_url_value(project.github_url.v).v[2]))

\* A homepage that is not empty and starts with http:// or https:// after
\* trimming.
usable_homepage(homepage) ==
    /\ homepage.some
    /\ trim(homepage.v) # <<>>
    /\ \/ starts_with(trim(homepage.v), Http)
       \/ starts_with(trim(homepage.v), Https)

enriched_one == ret.op = "enrich_project_with_github"

\* C14: manual data is never overwritten: for a project whose demo_url is
\* set, enrichment returns that demo_url with source Manual and the static
\* description and technologies, whatever the lookup would return.
C14_ManualNeverOverwritten ==
    enriched_one /\ ret.project.demo_url.some =>
        /\ ret.result.demo_url = ret.project.demo_url
        /\ ret.result.demo_url_source = "Manual"
        /\ ret.result.description_en = ret.project.description_en
        /\ ret.result.description_es = ret.project.description_es
        /\ ret.result.technologies = ret.project.technologies

\* C14 witness: a project with a manual demo_url was enriched while its
\* github_url names a repository with another homepage, a description and
\* topics.
C14_Witness ==
    /\ enriched_one /\ ret.project.demo_url.some
    /\ named_by(ret.project, ret.data) # <<>>
    /\ LET r == Head(named_by(ret.project, ret.data))
       IN  /\ usable_homepage(r.homepage)
           /\ Some(trim(r.homepage.v)) # ret.project.demo_url
           /\ r.description = Some("Description on GitHub")
           /\ r.topics # <<>>
    /\ ret.project.technologies # <<>>

\* C15: without a manual demo_url, demo_url becomes the trimmed homepage
\* with source GitHub exactly when github_url is present, parses, the lookup
\* succeeds and the homepage is usable; otherwise both stay None.
C15_DemoUrlFromHomepage ==
    enriched_one /\ ~ret.project.demo_url.some =>
        IF /\ named_by(ret.project, ret.data) # <<>>
           /\ usable_homepage(Head(named_by(ret.project, ret.data)).homepage)
        THEN /\ ret.result.demo_url =
                    Some(trim(Head(named_by(ret.project, ret.data)).homepage.v))
             /\ ret.result.demo_url_source = "GitHub"
        ELSE /\ ret.result.demo_url = None
             /\ ret.result.demo_url_source = "None"

\* C15 witness: a homepage padded with whitespace became the demo_url.
C15_Witness ==
    /\ enriched_one /\ ~ret.project.demo_url.some
    /\ ret.result.demo_url_source = "GitHub"
    /\ ret.result.demo_url = Some(Https \o DemoHost)
    /\ Head(named_by(ret.project, ret.data)).homepage # ret.result.demo_url

\* Provenance of one enriched project made from one static project.
provenance(project, enriched) ==
    /\ enriched.demo_url_source = "None" <=> ~enriched.demo_url.some
    /\ enriched.demo_url_source = "Manual" <=> project.demo_url.some
    /\ enriched.demo_url_source = "GitHub" =>
           enriched.demo_url.some /\ ~project.demo_url.some

\* C16: for every EnrichedProject made by From<Project> or by enrichment,
\* the source is None exactly when demo_url is None, Manual exactly when the
\* static project had a demo_url, and GitHub only with a demo_url that the
\* static project did not have.
C16_Provenance ==
    /\ ret.op \in {"from", "enrich_project_with_github"} =>
           provenance(ret.project, ret.result)
    /\ ret.op = "get_projects_enriched" =>
           \A i \in 1 .. Len(get_projects) :
               provenance(get_projects[i], ret.result[i])

\* C16 witness: the project list was enriched into projects of all three
\* sources.
C16_Witness ==
    /\ ret.op = "get_projects_enriched"
    /\ \A source \in {"Manual", "GitHub", "None"} :
           \E i \in 1 .. Len(ret.result) :
               ret.result[i].demo_url_source = source

\* C17: enrichment overwrites only description_en with the description it
\* found; description_es, the long descriptions, id, title, status,
\* github_url, image_override and image_fallback keep the static values in
\* every outcome.
C17_OnlyEnglishDescription ==
    enriched_one =>
        /\ \A f \in {"description_es", "long_description_en",
                     "long_description_es", "id", "title", "status",
                     "github_url", "image_override", "image_fallback"} :
               ret.result[f] = ret.project[f]
        /\ ret.result.description_en \in
               {ret.project.description_en} \cup
               { r.description.v : r \in
                   { ret.data[i] : i \in { j \in 1 .. Len(ret.data) :
                       ret.data[j].description.some } } }

\* C17 witness: the description found on GitHub replaced description_en.
C17_Witness ==
    /\ enriched_one
    /\ ret.result.description_en = "Description on GitHub"
    /\ ret.project.description_en # "Description on GitHub"

\* The topics that equal no existing technology, case-insensitively.
new_topics(topics, technologies) ==
    SelectSeq(topics, LAMBDA t :
        \A i \in 1 .. Len(technologies) :
            ~eq_ignore_ascii_case(t, technologies[i]))

\* C18: when the metadata found has topics, the enriched technologies are
\* the existing ones, each at its position and in its spelling, followed by
\* the topics that equal no existing technology case-insensitively, in
\* source order.
C18_TopicsAppended ==
    /\ enriched_one /\ ~ret.project.demo_url.some
    /\ named_by(ret.project, ret.data) # <<>>
    /\ Head(named_by(ret.project, ret.data)).topics # <<>>
    => ret.result.technologies =
           ret.project.technologies
           \o new_topics(Head(named_by(ret.project, ret.data)).topics,
                         ret.project.technologies)

U8Max == 255

WordsPerMinute == 200

Pieces == {<<"w", " ">>, <<"w">>, <<" ", "\n">>, <<"a", " ", "b">>}

Repeats == {0, 1, 2, 50, 200, 201, 400, 1000, 51000, 51001, MaxRepeat}

Contents == [piece : Pieces, times : Repeats]

\* str::split_whitespace().count() of a text: the maximal runs of
\* characters that are not whitespace.
split_whitespace_count(s) ==
    Cardinality({ i \in 1 .. Len(s) :
        ~is_whitespace(s[i]) /\ (i = 1 \/ is_whitespace(s[i - 1])) })

\* split_whitespace().count() of piece.repeat(times): every repetition
\* after the first adds the words that a second copy adds to the first.
word_count(content) ==
    IF content.times = 0 THEN 0
    ELSE split_whitespace_count(content.piece)
         + (content.times - 1)
           * (split_whitespace_count(content.piece \o content.piece)
              - split_whitespace_count(content.piece))

\* (word_count as f32 / 200.0).ceil(): f32 holds every count below 2^24
\* and no quotient of the model rounds to a whole number.
ceil_minutes(count) == (count + WordsPerMinute - 1) \div WordsPerMinute

\* f32 as u8: the cast saturates at u8::MAX.
as_u8(x) == IF x > U8Max THEN U8Max ELSE IF x < 0 THEN 0 ELSE x

calculate_read_time_value(content) ==
    LET minutes == as_u8(ceil_minutes(word_count(content)))
    IN  IF minutes >= 1 THEN minutes ELSE 1

calculate_read_time(content) ==
    /\ Running
    /\ ret' = [op |-> "calculate_read_time", content |-> content,
               result |-> calculate_read_time_value(content)]
    /\ UNCHANGED <<cache, now, overflow_checks>>
    /\ UNCHANGED <<Asset, GLOBAL_CACHE, thread>>

ReadTime == \E content \in Contents : calculate_read_time(content)

NextReadTime == ReadTime

SpecReadTime == Init /\ [][NextReadTime]_vars

\* C20: the computed read time is ceil(word_count / 200) with a minimum of
\* 1 for every word count, the words being the whitespace-separated tokens
\* (50 words give 1, 400 give 2, 1000 give 5, 0 give 1, 201 give 2).
C20_ReadTimeIsCeiling ==
    ret.op = "calculate_read_time" =>
        LET words == word_count(ret.content)
        IN  /\ ret.result >= 1
            /\ words > 0 => /\ WordsPerMinute * ret.result >= words
                            /\ WordsPerMinute * (ret.result - 1) < words
            /\ words = 0 => ret.result = 1

(***************************************************************************)
(* utils/markdown_loader.rs: the embedded Markdown files and               *)
(* load_markdown_posts.  File names and dates are sequences of             *)
(* one-character strings.                                                  *)
(***************************************************************************)
DotMd == <<".", "m", "d">>

DotEnMd == <<".", "e", "n">> \o DotMd

DotEsMd == <<".", "e", "s">> \o DotMd

\* The names of the files: two posts, each as slug.md, slug.en.md and
\* slug.es.md.
Filenames ==
    { stem \o suffix : stem \in {<<"a">>, <<"b">>},
                       suffix \in {DotMd, DotEnMd, DotEsMd} }

Date09 == <<"0", "9">>

Date10 == <<"1", "0">>

\* What gray_matter finds in a file: no frontmatter that deserializes, or a
\* frontmatter with its date and its optional read_time.
Frontmatters ==
    {None} \cup
    { Some([date |-> d[1], read_time |-> d[2], featured |-> d[3]]) :
        d \in { <<Date09, None, FALSE>>, <<Date09, Some(0), TRUE>>,
                <<Date10, Some(7), FALSE>> } }

\* A file of content/blog: its title, excerpt and content are its own.
File(filename, matter) ==
    [filename |-> filename,
     frontmatter |->
         IF matter.some
         THEN Some([slug |-> trim_end_matches(filename, DotMd),
                    title |-> <<"title of">> \o filename,
                    date |-> matter.v.date,
                    excerpt |-> <<"excerpt of">> \o filename,
                    tags |-> <<"rust">>, featured |-> matter.v.featured,
                    read_time |-> matter.v.read_time])
         ELSE None,
     content |-> [piece |-> <<"w", " ">>,
                  times |-> IF ends_with(filename, DotEsMd) THEN 400 ELSE 201]]

\* The sequences of at most MaxFiles files with different names.
Assets ==
    UNION { { files \in [1 .. n -> { File(f, m) : f \in Filenames,
                                                 m \in Frontmatters }] :
                \A i, j \in 1 .. n :
                    i # j => files[i].filename # files[j].filename } :
            n \in 0 .. MaxFiles }

\* pulldown_cmark: the HTML of a content.
push_html(content) == [html |-> content]

\* The file_slug and the language that a file name stands for.
file_slug_and_language(filename) ==
    IF ends_with(filename, DotEsMd)
    THEN [file_slug |-> trim_end_matches(filename, DotEsMd), language |-> "ES"]
    ELSE IF ends_with(filename, DotEnMd)
    THEN [file_slug |-> trim_end_matches(filename, DotEnMd), language |-> "EN"]
    ELSE [file_slug |-> trim_end_matches(filename, DotMd), language |-> "EN"]

\* The MarkdownPost of one file.
MarkdownPost(file) ==
    [frontmatter |-> file.frontmatter.v,
     content_html |-> push_html(file.content),
     read_time_minutes |->
         IF file.frontmatter.v.read_time.some
         THEN file.frontmatter.v.read_time.v
         ELSE calculate_read_time_value(file.content),
     language |-> file_slug_and_language(file.filename).language,
     file_slug |-> file_slug_and_language(file.filename).file_slug]

RECURSIVE load_markdown_posts(_)
load_markdown_posts(files) ==
    IF files = <<>> THEN <<>>
    ELSE IF ends_with(Head(files).filename, DotMd) /\ Head(files).frontmatter.some
    THEN <<MarkdownPost(Head(files))>> \o load_markdown_posts(Tail(files))
    ELSE load_markdown_posts(Tail(files))

(***************************************************************************)
(* components/blog.rs: get_blog_posts and get_post_by_slug.                *)
(***************************************************************************)
\* The keys of grouped_posts and the variants pushed under a key.
group_keys(raw_posts) == { raw_posts[i].file_slug : i \in 1 .. Len(raw_posts) }

variants_of(raw_posts, slug) ==
    SelectSeq(raw_posts, LAMBDA p : p.file_slug = slug)

\* The orders in which a HashMap can hand out its keys.
iteration_orders(keys) ==
    { order \in [1 .. Cardinality(keys) -> keys] :
        \A i, j \in 1 .. Cardinality(keys) : i # j => order[i] # order[j] }

\* variants.iter().find(|p| p.language == language).
find_variant(variants, language) ==
    IF \E i \in 1 .. Len(variants) : variants[i].language = language
    THEN Some(Head(SelectSeq(variants, LAMBDA p : p.language = language)))
    ELSE None

\* The BlogPost of a group with the ES variant ignored.
blog_post_en_only(slug, base, es_variant) ==
    [slug |-> slug,
     title_en |-> base.frontmatter.title, title_es |-> base.frontmatter.title,
     excerpt_en |-> base.frontmatter.excerpt,
     excerpt_es |-> base.frontmatter.excerpt,
     content_en |-> base.content_html, content_es |-> base.content_html,
     date |-> base.frontmatter.date, read_time |-> base.read_time_minutes,
     tags |-> base.frontmatter.tags, status |-> "Published",
     featured |-> base.frontmatter.featured]

\* The BlogPost built from the EN variant and, if there is one, the ES one.
blog_post(slug, base, es_variant) ==
    [slug |-> slug,
     title_en |-> base.frontmatter.title,
     title_es |-> IF es_variant.some THEN es_variant.v.frontmatter.title
                  ELSE base.frontmatter.title,
     excerpt_en |-> base.frontmatter.excerpt,
     excerpt_es |-> IF es_variant.some THEN es_variant.v.frontmatter.excerpt
                    ELSE base.frontmatter.excerpt,
     content_en |-> base.content_html,
     content_es |-> IF es_variant.some THEN es_variant.v.content_html
                    ELSE base.content_html,
     date |-> base.frontmatter.date, read_time |-> base.read_time_minutes,
     tags |-> base.frontmatter.tags, status |-> "Published",
     featured |-> base.frontmatter.featured]

\* The closure of filter_map with a group without EN variant served from
\* its ES variant.
consolidate_any_language(slug, variants) ==
    IF find_variant(variants, "EN").some
    THEN Some(blog_post(slug, find_variant(variants, "EN").v,
                        find_variant(variants, "ES")))
    ELSE Some(blog_post(slug, find_variant(variants, "ES").v,
                        find_variant(variants, "ES")))

\* The closure of filter_map: a group without EN variant gives nothing.
consolidate(slug, variants) ==
    IF find_variant(variants, "EN").some
    THEN Some(blog_post(slug, find_variant(variants, "EN").v,
                        find_variant(variants, "ES")))
    ELSE None

RECURSIVE filter_map(_, _)
filter_map(raw_posts, order) ==
    IF order = <<>> THEN <<>>
    ELSE (IF consolidate(Head(order), variants_of(raw_posts, Head(order))).some
          THEN <<consolidate(Head(order), variants_of(raw_posts, Head(order))).v>>
          ELSE <<>>)
         \o filter_map(raw_posts, Tail(order))

\* The bytes of the characters of a date.
byte(c) ==
    CASE c = "0" -> 48 [] c = "1" -> 49 [] c = "2" -> 50 [] c = "3" -> 51
      [] c = "4" -> 52 [] c = "5" -> 53 [] c = "6" -> 54 [] c = "7" -> 55
      [] c = "8" -> 56 [] c = "9" -> 57 [] c = "-" -> 45

\* str::cmp: the bytes compared from the left, a prefix being Less.
RECURSIVE cmp(_, _)
cmp(a, b) ==
    IF a = <<>> /\ b = <<>> THEN "Equal"
    ELSE IF a = <<>> THEN "Less"
    ELSE IF b = <<>> THEN "Greater"
    ELSE IF byte(Head(a)) < byte(Head(b)) THEN "Less"
    ELSE IF byte(Head(a)) > byte(Head(b)) THEN "Greater"
    ELSE cmp(Tail(a), Tail(b))

\* The comparator with the arguments in ascending order.
sorts_before_ascending(a, b) == cmp(a.date, b.date) = "Less"

\* The comparator |a, b| b.date.cmp(&a.date): a sorts before b.
sorts_before(a, b) == cmp(b.date, a.date) = "Less"

\* slice::sort_by is stable: a post goes behind the posts it does not sort
\* before.
RECURSIVE insert_sorted(_, _)
insert_sorted(sorted, post) ==
    IF sorted = <<>> THEN <<post>>
    ELSE IF sorts_before(post, Head(sorted)) THEN <<post>> \o sorted
    ELSE <<Head(sorted)>> \o insert_sorted(Tail(sorted), post)

RECURSIVE sort_by(_)
sort_by(posts) ==
    IF posts = <<>> THEN <<>>
    ELSE insert_sorted(sort_by(SubSeq(posts, 1, Len(posts) - 1)),
                       posts[Len(posts)])

\* get_blog_posts over the embedded files, the HashMap handing out its
\* groups in the given order.
get_blog_posts_value(files, order) ==
    sort_by(filter_map(load_markdown_posts(files), order))

\* A search that returns the first post whatever its slug.
find_first(posts, slug) ==
    IF posts # <<>> THEN Some(Head(posts)) ELSE None

\* posts.into_iter().find(|p| p.slug == slug).
find_slug(posts, slug) ==
    IF \E i \in 1 .. Len(posts) : posts[i].slug = slug
    THEN Some(Head(SelectSeq(posts, LAMBDA p : p.slug = slug)))
    ELSE None

get_blog_posts ==
    /\ Running
    /\ \E order \in iteration_orders(group_keys(load_markdown_posts(Asset))) :
           ret' = [op |-> "get_blog_posts",
                   result |-> get_blog_posts_value(Asset, order)]
    /\ UNCHANGED <<cache, now, overflow_checks>>
    /\ UNCHANGED <<Asset, GLOBAL_CACHE, thread>>

\* get_post_by_slug calls get_blog_posts and searches what it returned.
get_post_by_slug(slug) ==
    /\ Running
    /\ \E order \in iteration_orders(group_keys(load_markdown_posts(Asset))) :
           \E posts \in {get_blog_posts_value(Asset, order)} :
               ret' = [op |-> "get_post_by_slug", slug |-> slug,
                       posts |-> posts, result |-> find_slug(posts, slug)]
    /\ UNCHANGED <<cache, now, overflow_checks>>
    /\ UNCHANGED <<Asset, GLOBAL_CACHE, thread>>

\* The slugs asked for: those of the files and one that no file has.
SlugInputs == {<<"a">>, <<"b">>, <<"c">>}

Blog ==
    \/ get_blog_posts
    \/ \E slug \in SlugInputs : get_post_by_slug(slug)

\* The program built with any of the sets of files.
InitBlog ==
    /\ cache = GitHubCache_new
    /\ now = 0
    /\ overflow_checks \in BOOLEAN
    /\ ret = [op |-> "new"]
    /\ Asset \in Assets
    /\ GLOBAL_CACHE = Uninitialized
    /\ thread = [t \in Threads |-> Idle]

NextBlog == Blog

SpecBlog == InitBlog /\ [][NextBlog]_vars

(***************************************************************************)
(* Properties of the blog posts.                                           *)
(***************************************************************************)
\* The embedded files that are loaded as a variant of a slug in a language.
files_of(slug, language) ==
    { i \in 1 .. Len(Asset) :
        /\ ends_with(Asset[i].filename, DotMd) /\ Asset[i].frontmatter.some
        /\ file_slug_and_language(Asset[i].filename)
               = [file_slug |-> slug, language |-> language] }

\* The slugs of the groups.
loaded_slugs ==
    { file_slug_and_language(Asset[i].filename).file_slug :
        i \in { j \in 1 .. Len(Asset) :
                  ends_with(Asset[j].filename, DotMd) /\ Asset[j].frontmatter.some } }

listed == ret.op = "get_blog_posts"

slugs_of(posts) == { posts[i].slug : i \in 1 .. Len(posts) }

\* C21: every post returned by get_blog_posts has read_time >= 1, whether
\* the value is the EN file's frontmatter read_time or is computed.
C21_ReadTimePositive ==
    listed => \A i \in 1 .. Len(ret.result) : ret.result[i].read_time >= 1

\* C22: a group with only an ES variant gives no post with its slug, and
\* every other group that has an EN variant still gives its post.
C22_EnglishRequired ==
    listed =>
        \A slug \in loaded_slugs :
            IF files_of(slug, "EN") = {}
            THEN slug \notin slugs_of(ret.result)
            ELSE slug \in slugs_of(ret.result)

\* C22 witness: one group has only its ES file, another has an EN file, and
\* the posts are those of the other group.
C22_Witness ==
    /\ listed
    /\ \E slug \in loaded_slugs :
           files_of(slug, "EN") = {} /\ files_of(slug, "ES") # {}
    /\ Len(ret.result) = 1

\* C23: a group gives a post only when it has exactly one EN variant; with
\* none or with more than one (slug.md and slug.en.md) it gives no record.
C23_ExactlyOneEnglish ==
    listed =>
        \A slug \in loaded_slugs :
            slug \in slugs_of(ret.result) <=>
                Cardinality(files_of(slug, "EN")) = 1

\* C24: with an EN variant and no ES variant the ES title, excerpt and
\* content are the EN ones; with both variants they come from the ES
\* variant; date, read_time, tags and featured come from the EN variant and
\* status is Published.
C24_SpanishFallback ==
    listed =>
        \A i \in 1 .. Len(ret.result) :
            LET post == ret.result[i]
            IN  /\ post.status = "Published"
                /\ \E e \in files_of(post.slug, "EN") :
                       /\ post.title_en = Asset[e].frontmatter.v.title
                       /\ post.excerpt_en = Asset[e].frontmatter.v.excerpt
                       /\ post.content_en = push_html(Asset[e].content)
                       /\ post.date = Asset[e].frontmatter.v.date
                       /\ post.read_time = MarkdownPost(Asset[e]).read_time_minutes
                       /\ post.tags = Asset[e].frontmatter.v.tags
                       /\ post.featured = Asset[e].frontmatter.v.featured
                /\ IF files_of(post.slug, "ES") = {}
                   THEN /\ post.title_es = post.title_en
                        /\ post.excerpt_es = post.excerpt_en
                        /\ post.content_es = post.content_en
                   ELSE \E x \in files_of(post.slug, "ES") :
                        /\ post.title_es = Asset[x].frontmatter.v.title
                        /\ post.excerpt_es = Asset[x].frontmatter.v.excerpt
                        /\ post.content_es = push_html(Asset[x].content)

\* C24 witness: a post was made from an EN and an ES file with different
\* dates, and its ES title and content differ from the EN ones.
C24_Witness ==
    /\ listed /\ Len(ret.result) = 1
    /\ ret.result[1].title_es # ret.result[1].title_en
    /\ ret.result[1].content_es # ret.result[1].content_en
    /\ \E x \in files_of(ret.result[1].slug, "ES") :
           Asset[x].frontmatter.v.date # ret.result[1].date

\* C25: the consolidated sequence has no two posts with one slug, and
\* get_post_by_slug(s) returns a post with slug s exactly when the
\* sequence holds one, otherwise None.
C25_SlugsUnique ==
    /\ listed =>
           \A i, j \in 1 .. Len(ret.result) :
               i # j => ret.result[i].slug # ret.result[j].slug
    /\ ret.op = "get_post_by_slug" =>
           /\ ret.result.some <=> ret.slug \in slugs_of(ret.posts)
           /\ ret.result.some =>
                  /\ ret.result.v.slug = ret.slug
                  /\ \E i \in 1 .. Len(ret.posts) : ret.posts[i] = ret.result.v

\* C25 witness: the second of two posts was found by its slug.
C25_Witness ==
    /\ ret.op = "get_post_by_slug" /\ ret.result.some
    /\ Len(ret.posts) = 2 /\ ret.posts[2] = ret.result.v

\* C26: the posts are ordered by date descending: of two adjacent posts the
\* first one's date is lexicographically greater than or equal to the
\* second one's.
C26_SortedByDateDescending ==
    listed =>
        \A i \in 1 .. Len(ret.result) - 1 :
            cmp(ret.result[i].date, ret.result[i + 1].date) \in {"Greater", "Equal"}

\* C26 witness: two posts with different dates were returned, from files
\* embedded in the opposite order.
C26_Witness ==
    /\ listed /\ Len(ret.result) = 2
    /\ ret.result[1].date # ret.result[2].date
    /\ Len(Asset) = 2
    /\ file_slug_and_language(Asset[1].filename).file_slug = ret.result[2].slug

\* C30: two calls of get_blog_posts over the same files return the same
\* sequence, whatever the HashMap's iteration order, the order of posts of
\* one date included.
C30_Deterministic ==
    [][listed /\ ret'.op = "get_blog_posts" /\ Asset' = Asset
           => ret'.result = ret.result]_vars

(***************************************************************************)
(* utils/github_cache.rs: the process-wide cache.  GLOBAL_CACHE is a       *)
(* OnceLock holding a RwLock<GitHubCache>; every thread goes through       *)
(* global_cache(), takes the lock, uses the map and drops the guard.       *)
(***************************************************************************)
\* The static data the cache is seeded from.
get_all_repos ==
    << OtherRepo,
       StaticRepo(Some(Https \o DemoHost), Some("Description on GitHub"),
                  <<Rs, Wasm>>) >>

\* str::split_once('/').
split_once(s, sep) ==
    IF \A i \in 1 .. Len(s) : s[i] # sep THEN None
    ELSE LET i == CHOOSE k \in 1 .. Len(s) :
                      s[k] = sep /\ \A j \in 1 .. k - 1 : s[j] # sep
         IN  Some(<<SubSeq(s, 1, i - 1), SubSeq(s, i + 1, Len(s))>>)

RECURSIVE populate_from_static(_, _, _)
populate_from_static(c, repos, t) ==
    IF repos = <<>> THEN c
    ELSE populate_from_static(
             IF split_once(Head(repos).full_name, "/").some
             THEN set_cache(c, split_once(Head(repos).full_name, "/").v[1],
                            split_once(Head(repos).full_name, "/").v[2],
                            Head(repos), t)
             ELSE c,
             Tail(repos), t)

\* The (owner, repo) arguments of the threads: a seeded repository and one
\* that is not in the static data.
GlobalNames == { << <<"o", "w">>, <<"R", "e">> >>,
                 << <<"o", "w">>, <<"l", "i", "b">> >> }

\* What a reader gets from a map that a writer is changing.
Torn == [some |-> TRUE, v |-> [torn |-> TRUE]]

\* A thread enters get_cached_repo.
call_get_cached_repo(t, owner, repo) ==
    /\ thread[t].pc = "idle"
    /\ thread' = [thread EXCEPT ![t] =
           [pc |-> "global_cache", op |-> "get_cached_repo",
            owner |-> owner, repo |-> repo]]
    /\ UNCHANGED <<cache, now, overflow_checks, ret, Asset, GLOBAL_CACHE>>

\* A thread enters set_cached_repo.
call_set_cached_repo(t, owner, repo, data) ==
    /\ thread[t].pc = "idle"
    /\ thread' = [thread EXCEPT ![t] =
           [pc |-> "global_cache", op |-> "set_cached_repo",
            owner |-> owner, repo |-> repo, data |-> data]]
    /\ UNCHANGED <<cache, now, overflow_checks, ret, Asset, GLOBAL_CACHE>>

\* OnceLock::get_or_init: the first thread runs the closure, a thread that
\* arrives while it runs waits, a later one finds the value.
get_or_init(t) ==
    /\ thread[t].pc = "global_cache"
    /\ GLOBAL_CACHE.once # "running"
    /\ IF GLOBAL_CACHE.once = "empty"
       THEN /\ GLOBAL_CACHE' = [GLOBAL_CACHE EXCEPT !.once = "running"]
            /\ thread' = [thread EXCEPT ![t].pc = "init"]
       ELSE /\ thread' = [thread EXCEPT ![t].pc = "lock"]
            /\ UNCHANGED GLOBAL_CACHE
    /\ UNCHANGED <<cache, now, overflow_checks, ret, Asset>>

\* The closure of get_or_init: GitHubCache::new(), populate_from_static.
init_global_cache(t) ==
    /\ thread[t].pc = "init"
    /\ GLOBAL_CACHE' = [GLOBAL_CACHE EXCEPT
           !.once = "done", !.inits = @ + 1,
           !.cache = populate_from_static(GitHubCache_new, get_all_repos, now)]
    /\ thread' = [thread EXCEPT ![t].pc = "lock"]
    /\ UNCHANGED <<cache, now, overflow_checks, ret, Asset>>

\* RwLock::read is granted while no thread holds the write guard.
can_read(lock) == lock.writer = {}

\* A write lock that does not wait for the readers.
can_write_beside_readers(lock) == lock.writer = {}

\* RwLock::write is granted while no thread holds a guard.
can_write(lock) == lock.writer = {} /\ lock.readers = {}

\* global_cache().read() of get_cached_repo.
read(t) ==
    /\ thread[t].pc = "lock" /\ thread[t].op = "get_cached_repo"
    /\ can_read(GLOBAL_CACHE)
    /\ GLOBAL_CACHE' = [GLOBAL_CACHE EXCEPT !.readers = @ \cup {t}]
    /\ thread' = [thread EXCEPT ![t].pc = "locked"]
    /\ UNCHANGED <<cache, now, overflow_checks, ret, Asset>>

\* global_cache().write() of set_cached_repo.
write(t) ==
    /\ thread[t].pc = "lock" /\ thread[t].op = "set_cached_repo"
    /\ can_write(GLOBAL_CACHE)
    /\ GLOBAL_CACHE' = [GLOBAL_CACHE EXCEPT !.writer = @ \cup {t}]
    /\ thread' = [thread EXCEPT ![t].pc = "locked"]
    /\ UNCHANGED <<cache, now, overflow_checks, ret, Asset>>

\* cache.get(owner, repo).cloned() under the read guard.  A map that is
\* being changed gives the reader neither the old nor the new entry.
get_under_guard(t) ==
    /\ thread[t].pc = "locked" /\ thread[t].op = "get_cached_repo"
    /\ thread' = [thread EXCEPT
           ![t] = [pc |-> "unlock", op |-> "get_cached_repo",
                   owner |-> thread[t].owner, repo |-> thread[t].repo,
                   result |-> IF GLOBAL_CACHE.inserting # {} THEN Torn
                              ELSE get_value(GLOBAL_CACHE.cache, thread[t].owner,
                                             thread[t].repo, now)]]
    /\ UNCHANGED <<cache, now, overflow_checks, ret, Asset, GLOBAL_CACHE>>

\* cache.set(owner, repo, data) under the write guard: the insertion starts.
begin_set_under_guard(t) ==
    /\ thread[t].pc = "locked" /\ thread[t].op = "set_cached_repo"
    /\ GLOBAL_CACHE' = [GLOBAL_CACHE EXCEPT
           !.inserting = @ \cup {make_key(thread[t].owner, thread[t].repo)}]
    /\ thread' = [thread EXCEPT ![t].pc = "inserting"]
    /\ UNCHANGED <<cache, now, overflow_checks, ret, Asset>>

\* The insertion is complete.
end_set_under_guard(t) ==
    /\ thread[t].pc = "inserting"
    /\ GLOBAL_CACHE' = [GLOBAL_CACHE EXCEPT
           !.inserting = @ \ {make_key(thread[t].owner, thread[t].repo)},
           !.cache = set_cache(@, thread[t].owner, thread[t].repo,
                               thread[t].data, now)]
    /\ thread' = [thread EXCEPT ![t].pc = "unlock"]
    /\ UNCHANGED <<cache, now, overflow_checks, ret, Asset>>

\* The guard is dropped and the call returns.
drop_guard(t) ==
    /\ thread[t].pc = "unlock"
    /\ GLOBAL_CACHE' = [GLOBAL_CACHE EXCEPT !.readers = @ \ {t},
                                           !.writer = @ \ {t}]
    /\ thread' = [thread EXCEPT ![t] = Idle]
    /\ ret' = IF thread[t].op = "get_cached_repo"
              THEN [op |-> "get_cached_repo", owner |-> thread[t].owner,
                    repo |-> thread[t].repo, val |-> thread[t].result]
              ELSE [op |-> "set_cached_repo", owner |-> thread[t].owner,
                    repo |-> thread[t].repo, data |-> thread[t].data]
    /\ UNCHANGED <<cache, now, overflow_checks, Asset>>

Global ==
    \/ \E t \in Threads, n \in GlobalNames : call_get_cached_repo(t, n[1], n[2])
    \/ \E t \in Threads, n \in GlobalNames :
           call_set_cached_repo(t, n[1], n[2], TestRepo)
    \/ \E t \in Threads : get_or_init(t)
    \/ \E t \in Threads : init_global_cache(t)
    \/ \E t \in Threads : read(t)
    \/ \E t \in Threads : write(t)
    \/ \E t \in Threads : get_under_guard(t)
    \/ \E t \in Threads : begin_set_under_guard(t)
    \/ \E t \in Threads : end_set_under_guard(t)
    \/ \E t \in Threads : drop_guard(t)

NextGlobal == Global

SpecGlobal == Init /\ [][NextGlobal]_vars

\* The threads that hold a guard of the lock, by where they are in the code.
in_guard(t) == thread[t].pc \in {"locked", "inserting", "unlock"}

set_in_progress(t) == in_guard(t) /\ thread[t].op = "set_cached_repo"

\* C27: in every interleaving of get_cached_repo and set_cached_repo, while
\* a set is in progress no other thread is inside the map; what a reader got
\* is the entry as the map holds it, never a half-written one; and the cache
\* is initialised from the static data exactly once, before any thread takes
\* the lock.
C27_ReadersSingleWriter ==
    /\ \A t \in Threads : set_in_progress(t)
           => \A u \in Threads \ {t} : ~in_guard(u)
    /\ \A t \in Threads :
           thread[t].pc = "unlock" /\ thread[t].op = "get_cached_repo"
           => /\ thread[t].result # Torn
              /\ thread[t].result = get_value(GLOBAL_CACHE.cache, thread[t].owner,
                                              thread[t].repo, now)
    /\ GLOBAL_CACHE.inits <= 1
    /\ Cardinality({t \in Threads : thread[t].pc = "init"}) <= 1
    /\ \A t \in Threads : thread[t].pc \in {"lock", "locked", "inserting", "unlock"}
           => /\ GLOBAL_CACHE.once = "done" /\ GLOBAL_CACHE.inits = 1
              /\ make_key(Owner, <<"R", "e">>) \in DOMAIN GLOBAL_CACHE.cache.entries
              /\ make_key(Owner, <<"n", "v">>) \in DOMAIN GLOBAL_CACHE.cache.entries

\* A writer is inside the insertion of a key while a reader of the same key
\* waits for the lock, after the first call was made by several threads.
C27_Witness ==
    \E t \in Threads, u \in Threads :
        /\ thread[t].pc = "inserting"
        /\ thread[u].pc = "lock" /\ thread[u].op = "get_cached_repo"
        /\ make_key(thread[u].owner, thread[u].repo)
               = make_key(thread[t].owner, thread[t].repo)
        /\ GLOBAL_CACHE.inits = 1

(***************************************************************************)
(* utils/github_cache.rs: the methods of CacheEntry, called on an entry    *)
(* the cache holds.                                                        *)
(***************************************************************************)
saturating_sub(a, b) == IF a > b THEN a - b ELSE 0

age_seconds(entry, t) == saturating_sub(t, entry.cached_at)

\* expiry = cached_at + ttl_seconds in u64, then expiry.saturating_sub(now).
remaining_ttl(entry, t) ==
    saturating_sub(wrapping_add(entry.cached_at, entry.ttl_seconds), t)

\* remaining_ttl panics on the same addition as is_expired.
remaining_ttl_panics(entry) ==
    overflow_checks /\ add_overflows(entry.cached_at, entry.ttl_seconds)

CacheEntry_is_expired(key) ==
    /\ Running
    /\ key \in DOMAIN cache.entries
    /\ ret' = IF is_expired_panics(cache.entries[key]) THEN Panic("is_expired")
              ELSE [op |-> "is_expired", entry |-> cache.entries[key],
                    val |-> is_expired(cache.entries[key], now)]
    /\ UNCHANGED <<cache, now, overflow_checks>>
    /\ UNCHANGED <<Asset, GLOBAL_CACHE, thread>>

CacheEntry_age_seconds(key) ==
    /\ Running
    /\ key \in DOMAIN cache.entries
    /\ ret' = [op |-> "age_seconds", entry |-> cache.entries[key],
               val |-> age_seconds(cache.entries[key], now)]
    /\ UNCHANGED <<cache, now, overflow_checks>>
    /\ UNCHANGED <<Asset, GLOBAL_CACHE, thread>>

CacheEntry_remaining_ttl(key) ==
    /\ Running
    /\ key \in DOMAIN cache.entries
    /\ ret' = IF remaining_ttl_panics(cache.entries[key]) THEN Panic("remaining_ttl")
              ELSE [op |-> "remaining_ttl", entry |-> cache.entries[key],
                    val |-> remaining_ttl(cache.entries[key], now)]
    /\ UNCHANGED <<cache, now, overflow_checks>>
    /\ UNCHANGED <<Asset, GLOBAL_CACHE, thread>>

Entry ==
    \/ \E key \in Keys : CacheEntry_is_expired(key)
    \/ \E key \in Keys : CacheEntry_age_seconds(key)
    \/ \E key \in Keys : CacheEntry_remaining_ttl(key)

NextEntry == Tick \/ Write \/ Entry

SpecEntry == Init /\ [][NextEntry]_vars

\* C29: is_expired and remaining_ttl return what the sums over unbounded
\* integers give, for every cached_at and ttl_seconds an entry holds: neither
\* panics, is_expired is now > cached_at + ttl_seconds, remaining_ttl is
\* max(0, cached_at + ttl_seconds - now), and remaining_ttl is 0 for an
\* expired entry.
C29_NoWraparound ==
    /\ ~(ret.op = "panic" /\ ret.in \in {"is_expired", "remaining_ttl"})
    /\ ret.op = "is_expired" => ret.val = ~fresh_at(ret.entry, now)
    /\ ret.op = "remaining_ttl" =>
          /\ ret.val = IF fresh_at(ret.entry, now)
                       THEN ret.entry.cached_at + ret.entry.ttl_seconds - now
                       ELSE 0
          /\ is_expired(ret.entry, now) => ret.val = 0

(***************************************************************************)
(* The cache while the clock advances: SystemTime::now() moves on whatever *)
(* the program does, so a clock that can advance eventually does.          *)
(***************************************************************************)
\* The operations that write an entry, with one value of the metadata.
ClockWrite ==
    \/ \E n \in Names : set(n[1], n[2], MinimalRepo)
    \/ \E n \in Names, t \in TtlInputs : set_with_ttl(n[1], n[2], MinimalRepo, t)

\* merge with a cache of at most one entry.
ClockMerge ==
    \E other \in {o \in OtherCaches(now) : Cardinality(DOMAIN o.entries) <= 1} :
        merge(other)

ClockRead == \E n \in Names : get(n[1], n[2])

NextClock == Tick \/ ClockWrite \/ ClockMerge \/ ClockRead

SpecClock == Init /\ [][NextClock]_vars /\ WF_vars(Tick)

\* The last instant of the clock.
Horizon == CHOOSE t \in Instants : \A u \in Instants : u <= t

has_entry(c, n) == make_key(n[1], n[2]) \in DOMAIN c.entries

entry_of(c, n) == c.entries[make_key(n[1], n[2])]

\* get returns None for a key that has an entry.
expired_for_get(c, n, t) ==
    /\ has_entry(c, n)
    /\ ~get_panics(c, n[1], n[2])
    /\ get_value(c, n[1], n[2], t) = None

\* The entry of the key expires before the last instant of the clock.
expires_in_time(c, n) ==
    /\ has_entry(c, n)
    /\ entry_of(c, n).cached_at + entry_of(c, n).ttl_seconds < Horizon

\* C28: the clock never goes back, and then once get returns None for a key
\* that has an entry it returns None in every later state as long as no set,
\* set_with_ttl or merge has replaced the entry; and an entry whose
\* cached_at + ttl_seconds the clock passes is eventually expired, unless it
\* was removed or rewritten with a later expiry or the process ended.
C28_ExpiryPermanent ==
    /\ [][now' >= now]_vars
    /\ [][\A n \in Names :
            /\ expired_for_get(cache, n, now)
            /\ has_entry(cache', n) => entry_of(cache', n) = entry_of(cache, n)
            => get_value(cache', n[1], n[2], now') = None]_vars
    /\ \A n \in Names :
          expires_in_time(cache, n)
              ~> \/ get_value(cache, n[1], n[2], now) = None
                 \/ ~expires_in_time(cache, n)
                 \/ ~Running

\* get returned None for an entry the clock has passed.
C28_Witness ==
    /\ ret.op = "get" /\ ret.val = None
    /\ has_entry(cache, <<ret.owner, ret.repo>>)
    /\ now > entry_of(cache, <<ret.owner, ret.repo>>).cached_at
                 + entry_of(cache, <<ret.owner, ret.repo>>).ttl_seconds

(***************************************************************************)
(* The whole program: every operation at any time.                         *)
(***************************************************************************)
Next ==
    Tick \/ Write \/ Read \/ Drop \/ Merge \/ Persist \/ ParseUrl \/ Enrich
        \/ ReadTime \/ Blog \/ Global \/ Entry

Spec == Init /\ [][Next]_vars

====
